---------------------------- MODULE Spec2Model ----------------------------
(***************************************************************************)
(* Test Attempt & Entitlement Engine of dekho_exam.                        *)
(*                                                                         *)
(* Two state machines over one relational store:                           *)
(*   - payment reconciliation (payment.controller.ts): createPaymentOrder, *)
(*     verifyPayment and handleRazorpayWebhook, each split at its database *)
(*     round trips so that concurrent requests interleave;                 *)
(*   - test attempts (test controller): startTest, startTestAttempt,       *)
(*     saveAnswer and submitTest, split the same way.                      *)
(* Spec runs the payment handlers; AttemptSpec runs startTest,             *)
(* startTestAttempt and submitTest for a candidate who saves no answers;   *)
(* EntitlementSpec runs startTest under a moving clock; AssemblySpec runs  *)
(* the start handlers on a mock test; AnswerSpec runs the answers and the  *)
(* submission of one attempt, under either version of the test controller, *)
(* ScoringSpec the same one request at a time; StatusSpec runs saveAnswer  *)
(* and the views on an attempt in any status; ListSpec and ZeroSpec run    *)
(* the answers and the submission of an attempt of one question and of an  *)
(* attempt without marks to win; LifecycleSpec runs every handler of an    *)
(* attempt, OwnerSpec the requests of any user on it; CreditSpec runs      *)
(* startTest on two paid tests, ShortfallSpec the start handlers on a test *)
(* with fewer questions than configured.                                   *)
(***************************************************************************)
EXTENDS Naturals, Integers, Sequences, FiniteSets, TLC

VARIABLES
    now,                \* wall clock (new Date()), in days
    payments,           \* table Payment, keyed by orderId (unique index)
    userSubscriptions,  \* table UserSubscription, rows in insertion order
    createdFrom,        \* history: the order whose activation inserted row i
    req,                \* in-flight payment requests: locals and position
    sent,               \* the response sent last, with the request it answers
    users,              \* table User: freeTestsUsed per user
    testAttempts,       \* table TestAttempt, rows in insertion order
    answers,            \* table TestAttemptAnswer, rows in insertion order
    call,               \* in-flight attempt requests: locals and position
    reply,              \* the attempt response sent last, with its request
    controller          \* the version of the test controller that serves

vars == <<now, payments, userSubscriptions, createdFrom, req, sent,
          users, testAttempts, answers, call, reply, controller>>

payVars == <<payments, createdFrom, req, sent>>
attemptVars == <<users, testAttempts, answers, call, reply, controller>>

NULL == "NULL"

\* the two versions of the test controller: test.controller.ts, whose
\* submitTest takes the answers in its body, and its revision with
\* startTestAttempt, saveAnswer and getTestResult
Controllers == {"test.controller.ts", "revision"}

-----------------------------------------------------------------------------
(* Bounds *)

MaxSubscriptions == 2   \* UserSubscription rows created before the model stops activating
MaxAttempts == 2        \* TestAttempt rows created before the model stops starting
MaxAnswers == 2         \* TestAttemptAnswer rows created before the model stops saving
MaxTime == 1            \* days the clock advances

-----------------------------------------------------------------------------
(* Fixtures: rows the catalog admin created before the engine runs *)

Users == {"u1", "u2"}

\* the user who buys a plan; users are interchangeable, and every user
\* can issue every request about the order
Buyers == {"u1"}

\* table SubscriptionPlan: durationDays is required non-zero at creation
SubscriptionPlans ==
    [ planAll |-> [isActive |-> TRUE, type |-> "ALL_CATEGORIES",
                   categoryId |-> NULL, durationDays |-> 2],
      planCat |-> [isActive |-> TRUE, type |-> "CATEGORY_SPECIFIC",
                   categoryId |-> "c1", durationDays |-> 1],
      planOld |-> [isActive |-> FALSE, type |-> "ALL_CATEGORIES",
                   categoryId |-> NULL, durationDays |-> 1] ]

PlanIds == DOMAIN SubscriptionPlans

\* order ids the gateway hands out; a request may also name an order that
\* has no Payment row
OrderIds == {"order_1"}
RequestOrderIds == OrderIds \cup {"order_x"}

\* gateway payment (transaction) ids
GatewayPaymentIds == {"pay_1"}

KEY_SECRET == "RAZORPAY_KEY_SECRET"
WEBHOOK_SECRET == "RAZORPAY_WEBHOOK_SECRET"

-----------------------------------------------------------------------------
(* Pure helpers of payment.controller.ts *)

\* crypto.createHmac("sha256", secret).update(body).digest("hex"): a keyed
\* digest, equal only for equal key and equal body
Hmac(secret, body) == <<"hmac", secret, body>>

\* signatures a client can present for (orderId, paymentId): the genuine
\* one, a genuine one of another order (a replay), one made with another key
ClientSignatures(orderId, paymentId) ==
    {Hmac(KEY_SECRET, <<o, paymentId>>) : o \in RequestOrderIds}
        \cup {Hmac("attacker", <<orderId, paymentId>>)}

\* whether the signature presented is the gateway's for this order and
\* payment id (what the request is, whatever the handler makes of it)
Genuine(orderId, paymentId, signature) ==
    signature = Hmac(KEY_SECRET, <<orderId, paymentId>>)

GenuineHook(body, header) == header = Hmac(WEBHOOK_SECRET, body)

IsAuthenticForged(orderId, paymentId, signature) == TRUE

\* verifyPayment: expectedSignature === razorpay_signature
IsAuthentic(orderId, paymentId, signature) ==
    Hmac(KEY_SECRET, <<orderId, paymentId>>) = signature

\* handleRazorpayWebhook: digest === req.headers["x-razorpay-signature"]
WebhookSignatureOk(body, header) ==
    Hmac(WEBHOOK_SECRET, body) = header

\* metadata.durationDays || 30
DEFAULT_DURATION_DAYS == 30
DurationDays(metadata) ==
    IF metadata.durationDays = 0 THEN DEFAULT_DURATION_DAYS
    ELSE metadata.durationDays

\* the value of `paymentRecord` when findFirst returns null
NoPayment ==
    [id |-> NULL, userId |-> NULL, orderId |-> NULL, status |-> NULL,
     transactionId |-> NULL,
     metadata |-> [planId |-> NULL, planType |-> NULL, categoryId |-> NULL,
                   durationDays |-> 0, failureReason |-> NULL]]

\* the local `paymentRecord` while the handler awaits its write: the
\* columns it still reads (id, userId, metadata); status and transactionId
\* of the snapshot are not read again after the checks
Held(paymentRecord) ==
    [paymentRecord EXCEPT !.status = NULL, !.transactionId = NULL]

\* prisma.payment.findFirst({ where: { orderId } })
FindPayment(orderId) ==
    IF orderId \in DOMAIN payments THEN payments[orderId] ELSE NoPayment

VerifyAlreadyProcessedNever(paymentRecord) == FALSE

\* verifyPayment's idempotency check
VerifyAlreadyProcessed(paymentRecord) == paymentRecord.status = "SUCCESS"

\* handleRazorpayWebhook: paymentRecord && paymentRecord.status !== "SUCCESS"
WebhookShouldActivate(paymentRecord) ==
    paymentRecord.id # NULL /\ paymentRecord.status # "SUCCESS"

Response(code, message) == [code |-> code, message |-> message]
NoResponse == Response(0, "")

\* res.status(code).json(...) or a thrown ApiError: the handler is over,
\* its locals are gone
Finished(request, response) ==
    [kind |-> request.kind, event |-> request.event,
     genuine |-> request.genuine, res |-> response]

NothingSent ==
    [kind |-> "idle", event |-> NULL, genuine |-> FALSE, res |-> NoResponse]

IdleRequest ==
    [kind |-> "idle", pc |-> "idle", userId |-> NULL, orderId |-> NULL,
     paymentId |-> NULL, event |-> NULL, genuine |-> FALSE,
     paymentRecord |-> NoPayment, startDate |-> 0, endDate |-> 0]

\* the handlers that can be in flight at once: two are enough for every
\* interleaving of one request with another
Requests == {"r1", "r2"}

\* an arriving request is served by the first free handler slot
Free(r) ==
    /\ req[r].kind = "idle"
    /\ r = "r1" \/ req["r1"].kind # "idle"

\* the rows of UserSubscription inserted by activations of `orderId`
SubscriptionsFrom(orderId) ==
    {i \in DOMAIN createdFrom : createdFrom[i] = orderId}

-----------------------------------------------------------------------------
(* createPaymentOrder: one Payment row per gateway order, PENDING, carrying
   the plan's scope and duration in its metadata *)

CreatePaymentOrder(userId, planId) ==
    /\ SubscriptionPlans[planId].isActive
    /\ \E orderId \in OrderIds \ DOMAIN payments :
         payments' = [o \in DOMAIN payments \cup {orderId} |->
            IF o = orderId
            THEN [id |-> orderId, userId |-> userId, orderId |-> orderId,
                  status |-> "PENDING", transactionId |-> NULL,
                  metadata |->
                    [planId |-> planId,
                     planType |-> SubscriptionPlans[planId].type,
                     categoryId |-> SubscriptionPlans[planId].categoryId,
                     durationDays |-> SubscriptionPlans[planId].durationDays,
                     failureReason |-> NULL]]
            ELSE payments[o]]
    /\ UNCHANGED <<now, userSubscriptions, createdFrom, req, sent, attemptVars>>

-----------------------------------------------------------------------------
(* The activation transaction: payment.update + userSubscription.create,
   committed together.  It writes without reading, so under any isolation
   level it is one atomic step.                                            *)

\* the userId written to the new UserSubscription row
VerifySubscriptionUser(r) == req[r].userId
WebhookSubscriptionUser(r) == req[r].paymentRecord.userId

Activate(r, subscriptionUser, startDate, endDate, autoRenew) ==
    LET rec == req[r].paymentRecord
        metadata == rec.metadata
    IN  /\ payments' = [payments EXCEPT
              ![rec.orderId].status = "SUCCESS",
              ![rec.orderId].transactionId = req[r].paymentId]
        /\ userSubscriptions' = Append(userSubscriptions,
              [userId |-> subscriptionUser,
               planId |-> metadata.planId,
               type |-> metadata.planType,
               categoryId |-> metadata.categoryId,
               startDate |-> startDate,
               endDate |-> endDate,
               isActive |-> TRUE,
               autoRenew |-> autoRenew])
        /\ createdFrom' = Append(createdFrom, rec.orderId)

-----------------------------------------------------------------------------
(* How a step of a handler ends *)

\* the handler awaits its next database call with these locals
Await(r, locals) ==
    /\ req' = [req EXCEPT ![r] = locals]
    /\ sent' = sent

\* the handler responds (or throws) and is over
Reply(r, request, response) ==
    /\ req' = [req EXCEPT ![r] = IdleRequest]
    /\ sent' = Finished(request, response)

-----------------------------------------------------------------------------
(* verifyPayment *)

\* arrival up to and including findFirst, the idempotency check and the
\* signature comparison
VerifyFind(r, userId, orderId, paymentId, signature, dbOk) ==
    /\ Free(r)
    /\ LET paymentRecord == FindPayment(orderId)
           authentic == IsAuthentic(orderId, paymentId, signature)
           base == [IdleRequest EXCEPT
                      !.kind = "verify", !.userId = userId,
                      !.orderId = orderId, !.paymentId = paymentId,
                      !.genuine = Genuine(orderId, paymentId, signature)]
       IN  IF ~dbOk
           THEN Reply(r, base, Response(500, "Internal Server Error"))
           ELSE IF paymentRecord.id = NULL
           THEN Reply(r, base, Response(404, "Payment record not found"))
           ELSE IF VerifyAlreadyProcessed(paymentRecord)
           THEN Reply(r, base, Response(200, "Payment already processed"))
           ELSE IF ~authentic
           THEN Await(r, [base EXCEPT !.pc = "markFailed",
                            !.userId = NULL, !.paymentId = NULL,
                            !.paymentRecord = Held(paymentRecord)])
           ELSE Await(r, [base EXCEPT !.pc = "activate",
                            !.paymentRecord = Held(paymentRecord),
                            !.startDate = now,
                            !.endDate = now + DurationDays(paymentRecord.metadata)])
    /\ UNCHANGED <<now, payments, userSubscriptions, createdFrom, attemptVars>>

\* payment.update({ status: "FAILED", metadata: {..., failureReason} })
VerifyMarkFailed(r, dbOk) ==
    /\ req[r].kind = "verify" /\ req[r].pc = "markFailed"
    /\ IF dbOk
       THEN /\ payments' = [payments EXCEPT
                 ![req[r].paymentRecord.orderId].status = "FAILED",
                 ![req[r].paymentRecord.orderId].metadata =
                     [req[r].paymentRecord.metadata EXCEPT
                        !.failureReason = "Signature Mismatch"]]
            /\ Reply(r, req[r],
                     Response(400, "Payment signature verification failed"))
       ELSE /\ payments' = payments
            /\ Reply(r, req[r], Response(500, "Internal Server Error"))
    /\ UNCHANGED <<now, userSubscriptions, createdFrom, attemptVars>>

\* prisma.$transaction: payment SUCCESS + subscription for req.user
VerifyActivate(r, dbOk) ==
    /\ req[r].kind = "verify" /\ req[r].pc = "activate"
    /\ IF dbOk
       THEN /\ Len(userSubscriptions) < MaxSubscriptions
            /\ Activate(r, VerifySubscriptionUser(r),
                        req[r].startDate, req[r].endDate, FALSE)
            /\ Reply(r, req[r],
                     Response(200, "Payment verified and subscription activated"))
       ELSE /\ UNCHANGED <<payments, userSubscriptions, createdFrom>>
            /\ Reply(r, req[r], Response(500, "Internal Server Error"))
    /\ UNCHANGED <<now, attemptVars>>

-----------------------------------------------------------------------------
(* handleRazorpayWebhook.  It is not wrapped in asyncHandler: a rejected
   database call outside its try/catch leaves the request without a
   response (Unhandled).                                                   *)

WebhookEvents == {"payment.captured", "payment.failed", "order.paid"}

WebhookBody(event, orderId, paymentId) ==
    [event |-> event, order_id |-> orderId, id |-> paymentId]

\* headers the gateway, or somebody else, can send with a body
WebhookHeaders(body) ==
    {Hmac(WEBHOOK_SECRET, body), Hmac("attacker", body)}

Unhandled == Response(0, "unhandled rejection")

\* arrival, signature check and, for payment.captured, findFirst
WebhookReceive(r, event, orderId, paymentId, header, dbOk) ==
    /\ Free(r)
    /\ event # "payment.failed"
    /\ LET body == WebhookBody(event, orderId, paymentId)
           paymentRecord == FindPayment(orderId)
           base == [IdleRequest EXCEPT
                      !.kind = "webhook", !.event = event,
                      !.orderId = orderId, !.paymentId = paymentId,
                      !.genuine = GenuineHook(body, header)]
       IN  IF ~WebhookSignatureOk(body, header)
           THEN Reply(r, base, Response(400, "invalid_signature"))
           ELSE IF event # "payment.captured"
           THEN Reply(r, base, Response(200, "ok"))
           ELSE IF ~dbOk
           THEN Reply(r, base, Unhandled)
           ELSE IF WebhookShouldActivate(paymentRecord)
           THEN Await(r, [base EXCEPT !.pc = "activate",
                            !.paymentRecord = Held(paymentRecord),
                            !.endDate = now + DurationDays(paymentRecord.metadata)])
           ELSE Reply(r, base, Response(200, "ok"))
    /\ UNCHANGED <<now, payments, userSubscriptions, createdFrom, attemptVars>>

\* try { prisma.$transaction(...) } catch { console.error }; then 200
WebhookActivate(r, dbOk) ==
    /\ req[r].kind = "webhook" /\ req[r].pc = "activate"
    /\ IF dbOk
       THEN /\ Len(userSubscriptions) < MaxSubscriptions
            /\ Activate(r, WebhookSubscriptionUser(r),
                        now, req[r].endDate, FALSE)
       ELSE UNCHANGED <<payments, userSubscriptions, createdFrom>>
    /\ Reply(r, req[r], Response(200, "ok"))
    /\ UNCHANGED <<now, attemptVars>>

\* payment.failed: payment.updateMany({ where: { orderId }, status FAILED })
WebhookPaymentFailed(r, orderId, paymentId, header, dbOk) ==
    /\ Free(r)
    /\ LET body == WebhookBody("payment.failed", orderId, paymentId)
           ok == WebhookSignatureOk(body, header)
           base == [IdleRequest EXCEPT
                      !.kind = "webhook", !.event = "payment.failed",
                      !.orderId = orderId, !.paymentId = paymentId,
                      !.genuine = GenuineHook(body, header)]
       IN  /\ Reply(r, base,
                    IF ~ok THEN Response(400, "invalid_signature")
                    ELSE IF ~dbOk THEN Unhandled
                    ELSE Response(200, "ok"))
           /\ payments' =
                IF ok /\ dbOk /\ orderId \in DOMAIN payments
                THEN [payments EXCEPT ![orderId].status = "FAILED"]
                ELSE payments
    /\ UNCHANGED <<now, userSubscriptions, createdFrom, attemptVars>>

-----------------------------------------------------------------------------
(* The catalog the attempt engine reads: it is written by the admin
   handlers only, so it is fixed while attempts run                        *)

\* startTest: free attempts on paid tests before a subscription is needed
FREE_LIMIT == 2

\* table CategorySubject: the blueprint of a category's mock tests
CategorySubjects ==
    { [categoryId |-> "c1", subjectId |-> "math", questionsPerTest |-> 1],
      [categoryId |-> "c1", subjectId |-> "eng", questionsPerTest |-> 1] }

\* table Topic
Topics ==
    [ tpAlgebra |-> [subjectId |-> "math", isActive |-> TRUE],
      tpGrammar |-> [subjectId |-> "eng", isActive |-> TRUE] ]

\* table Question
Questions ==
    [ q1 |-> [topicId |-> "tpAlgebra", isActive |-> TRUE, correctOption |-> 1],
      q2 |-> [topicId |-> "tpAlgebra", isActive |-> TRUE, correctOption |-> 2],
      q3 |-> [topicId |-> "tpGrammar", isActive |-> TRUE, correctOption |-> 3],
      q4 |-> [topicId |-> "tpGrammar", isActive |-> FALSE, correctOption |-> 4] ]

\* the order in which a findMany without orderBy returns the Question rows
QuestionScan == <<"q1", "q2", "q3", "q4">>

\* table Test; positiveMarks and negativeMarks (DECIMAL(5,2)) are counted in
\* quarters of a mark: 1.0 and 0.25, the column defaults; tZero has had its
\* positiveMarks set to 0 by updateTest, tBig is configured with more
\* questions than its category has active
Tests ==
    [ tPaid |-> [isActive |-> TRUE, isPaid |-> TRUE, categoryId |-> "c1",
                 subjectId |-> "eng", totalQuestions |-> 1,
                 positiveMarks |-> 4, negativeMarks |-> 1],
      tFree |-> [isActive |-> TRUE, isPaid |-> FALSE, categoryId |-> "c1",
                 subjectId |-> "math", totalQuestions |-> 1,
                 positiveMarks |-> 4, negativeMarks |-> 1],
      tMock |-> [isActive |-> TRUE, isPaid |-> FALSE, categoryId |-> "c1",
                 subjectId |-> NULL, totalQuestions |-> 2,
                 positiveMarks |-> 4, negativeMarks |-> 1],
      tPaid2 |-> [isActive |-> TRUE, isPaid |-> TRUE, categoryId |-> "c1",
                  subjectId |-> "eng", totalQuestions |-> 1,
                  positiveMarks |-> 4, negativeMarks |-> 1],
      tBig |-> [isActive |-> TRUE, isPaid |-> FALSE, categoryId |-> "c1",
                subjectId |-> NULL, totalQuestions |-> 4,
                positiveMarks |-> 4, negativeMarks |-> 1],
      tZero |-> [isActive |-> TRUE, isPaid |-> FALSE, categoryId |-> "c1",
                 subjectId |-> "math", totalQuestions |-> 1,
                 positiveMarks |-> 0, negativeMarks |-> 1] ]

\* the user who takes tests; users are interchangeable, and attempts of
\* different users meet only in the ownership checks
Candidates == {"u1"}

\* the test ids the candidate sends to the start handlers: a paid test, a
\* free test and an unknown id
RequestTestIds == {"tPaid", "tFree", "t_x"}

\* UserSubscription rows present when the attempt engine starts: none, or
\* one of user u1 (bought or granted earlier; it expires when the clock
\* reaches its endDate)
GrantedSubscriptions ==
    { [userId |-> "u1", planId |-> "planAll", type |-> "ALL_CATEGORIES",
       categoryId |-> NULL, startDate |-> 0, endDate |-> 1,
       isActive |-> TRUE, autoRenew |-> FALSE],
      [userId |-> "u1", planId |-> "planCat", type |-> "CATEGORY_SPECIFIC",
       categoryId |-> "c1", startDate |-> 0, endDate |-> 1,
       isActive |-> TRUE, autoRenew |-> FALSE],
      [userId |-> "u1", planId |-> "planCat", type |-> "CATEGORY_SPECIFIC",
       categoryId |-> "c2", startDate |-> 0, endDate |-> 1,
       isActive |-> TRUE, autoRenew |-> FALSE],
      [userId |-> "u1", planId |-> "planAll", type |-> "ALL_CATEGORIES",
       categoryId |-> NULL, startDate |-> 0, endDate |-> 1,
       isActive |-> FALSE, autoRenew |-> FALSE] }

\* further rows for the entitlement check: a subscription that has run
\* out, and one of another user
OtherSubscriptions ==
    { [userId |-> "u1", planId |-> "planAll", type |-> "ALL_CATEGORIES",
       categoryId |-> NULL, startDate |-> 0, endDate |-> 0,
       isActive |-> TRUE, autoRenew |-> FALSE],
      [userId |-> "u2", planId |-> "planAll", type |-> "ALL_CATEGORIES",
       categoryId |-> NULL, startDate |-> 0, endDate |-> 1,
       isActive |-> TRUE, autoRenew |-> FALSE] }

-----------------------------------------------------------------------------
(* Queries of the attempt handlers *)

Min(a, b) == IF a <= b THEN a ELSE b

\* every order of the elements of S
Shuffles(S) ==
    {s \in [1..Cardinality(S) -> S] :
        \A i, j \in 1..Cardinality(S) : s[i] = s[j] => i = j}

\* pool.sort(() => 0.5 - Math.random()).slice(0, n), as a set of ids
ShuffleAndSlice(pool, n) ==
    {T \in SUBSET pool : Cardinality(T) = Min(n, Cardinality(pool))}

ActiveTopicsOf(subjectId) ==
    {t \in DOMAIN Topics : Topics[t].subjectId = subjectId /\ Topics[t].isActive}

TopicsOf(subjectId) ==
    {t \in DOMAIN Topics : Topics[t].subjectId = subjectId}

ActiveQuestionsIn(topicIds) ==
    {q \in DOMAIN Questions :
        Questions[q].topicId \in topicIds /\ Questions[q].isActive}

\* scenario A: a test of one subject
SubjectSelections(test) ==
    ShuffleAndSlice(ActiveQuestionsIn(ActiveTopicsOf(test.subjectId)),
                    test.totalQuestions)

\* scenario B: a mock test, one draw per row of the category's blueprint
MockSelections(test) ==
    LET blueprint == {item \in CategorySubjects :
                         item.categoryId = test.categoryId}
        Draws(item) == ShuffleAndSlice(
                           ActiveQuestionsIn(TopicsOf(item.subjectId)),
                           item.questionsPerTest)
    IN  {UNION {draw[item] : item \in blueprint} :
            draw \in {d \in [blueprint -> SUBSET DOMAIN Questions] :
                         \A item \in blueprint : d[item] \in Draws(item)}}

\* startTest's selectedQuestions after the final shuffle: the question ids
\* in the order stored on the attempt
SelectedQuestions(test) ==
    UNION {Shuffles(T) :
             T \in IF test.subjectId # NULL THEN SubjectSelections(test)
                   ELSE MockSelections(test)}

\* the lists startTest can select, by test
StartTestSelections == [t \in DOMAIN Tests |-> SelectedQuestions(Tests[t])]

\* startTestAttempt's question query: the active questions of the subjects
\* in the blueprint of the test's category, the first totalQuestions of them
CategoryQuestions(test) ==
    LET subjects == {item.subjectId : item \in {i \in CategorySubjects :
                                         i.categoryId = test.categoryId}}
        Matches(q) == /\ Questions[q].isActive
                      /\ Topics[Questions[q].topicId].subjectId \in subjects
        matching == SelectSeq(QuestionScan, Matches)
    IN  SubSeq(matching, 1, Min(test.totalQuestions, Len(matching)))

HasSubscriptionOfAnyDate(userId, categoryId, date) ==
    \E i \in DOMAIN userSubscriptions :
        LET sub == userSubscriptions[i]
        IN  /\ sub.userId = userId
            /\ sub.isActive
            /\ \/ sub.type = "ALL_CATEGORIES"
               \/ sub.type = "CATEGORY_SPECIFIC" /\ sub.categoryId = categoryId

\* userSubscription.findFirst of the entitlement check
HasActiveSubscription(userId, categoryId, date) ==
    \E i \in DOMAIN userSubscriptions :
        LET sub == userSubscriptions[i]
        IN  /\ sub.userId = userId
            /\ sub.isActive
            /\ sub.endDate > date
            /\ \/ sub.type = "ALL_CATEGORIES"
               \/ sub.type = "CATEGORY_SPECIFIC" /\ sub.categoryId = categoryId

\* the ids of the user's IN_PROGRESS attempts of the test
InProgressOf(userId, testId) ==
    {i \in DOMAIN testAttempts :
        /\ testAttempts[i].userId = userId
        /\ testAttempts[i].testId = testId
        /\ testAttempts[i].status = "IN_PROGRESS"}

\* attemptNumber of the user's last attempt of the test, 0 without one
LastAttemptNumber(userId, testId) ==
    LET numbers == {testAttempts[i].attemptNumber :
                      i \in {j \in DOMAIN testAttempts :
                               /\ testAttempts[j].userId = userId
                               /\ testAttempts[j].testId = testId}}
    IN  IF numbers = {} THEN 0
        ELSE CHOOSE n \in numbers : \A m \in numbers : m <= n

\* unique index TestAttempt(userId, testId, attemptNumber)
AttemptNumberTaken(userId, testId, attemptNumber) ==
    \E i \in DOMAIN testAttempts :
        /\ testAttempts[i].userId = userId
        /\ testAttempts[i].testId = testId
        /\ testAttempts[i].attemptNumber = attemptNumber

\* submittedAt of an attempt that was not submitted
NoDate == 0 - 1

\* testAttempt.create: the row, its id the next of the table
NewAttempt(userId, testId, attemptNumber, totalQuestions, questionIds) ==
    [id |-> Len(testAttempts) + 1, userId |-> userId, testId |-> testId,
     attemptNumber |-> attemptNumber, status |-> "IN_PROGRESS",
     totalQuestions |-> totalQuestions, questionIds |-> questionIds,
     startedAt |-> now, submittedAt |-> NoDate,
     attemptedCount |-> 0, correctCount |-> 0, incorrectCount |-> 0,
     totalMarks |-> 0, percentage |-> 0]

\* data: { freeTestsUsed: { increment: 1 } }
IncrementNone(freeTestsUsed) == freeTestsUsed

Increment(freeTestsUsed) == freeTestsUsed + 1

-----------------------------------------------------------------------------
(* Requests of the attempt engine *)

Calls == {"k1", "k2"}

\* denied: history, whether the entitlement rules keep the user from the
\* test when the request arrives; resumes: history, the user's IN_PROGRESS
\* attempts of the test when the request arrives
IdleCall ==
    [kind |-> "idle", pc |-> "idle", userId |-> NULL, testId |-> NULL,
     attemptId |-> 0, consumeFreeAttempt |-> FALSE, nextAttemptNumber |-> 0,
     questionId |-> NULL, selectedOption |-> 0, existingAnswer |-> 0,
     totalQuestions |-> 0, userAnswers |-> <<>>, unattempted |-> 0,
     correct |-> 0, incorrect |-> 0, body |-> <<>>,
     denied |-> FALSE, resumes |-> {}]

\* what the client gets: the response and, on success, data.attemptId and
\* data.isFreeAttempt; requester and requested: history, who asked and
\* for which attempt
Answer(request, response, attemptId) ==
    [kind |-> request.kind, denied |-> request.denied,
     resumes |-> request.resumes, res |-> response,
     attemptId |-> attemptId, isFreeAttempt |-> request.consumeFreeAttempt,
     requester |-> request.userId, requested |-> request.attemptId]

NoAnswer == Answer(IdleCall, NoResponse, 0)

FreeCall(c) ==
    /\ call[c].kind = "idle"
    /\ c = "k1" \/ call["k1"].kind # "idle"

AwaitCall(c, locals) ==
    /\ call' = [call EXCEPT ![c] = locals]
    /\ reply' = NoAnswer

ReplyCall(c, request, response, attemptId) ==
    /\ call' = [call EXCEPT ![c] = IdleCall]
    /\ reply' = Answer(request, response, attemptId)

\* the entitlement rules: a free test, a free attempt left, or a
\* subscription that is active, unexpired and covers the test's category
Entitled(userId, testId) ==
    \/ ~Tests[testId].isPaid
    \/ users[userId].freeTestsUsed < FREE_LIMIT
    \/ HasActiveSubscription(userId, Tests[testId].categoryId, now)

Arrived(kind, userId, testId) ==
    [IdleCall EXCEPT !.kind = kind, !.userId = userId, !.testId = testId,
                     !.denied = testId \in DOMAIN Tests
                                   /\ ~Entitled(userId, testId),
                     !.resumes = InProgressOf(userId, testId)]

DatabaseError == Response(500, "database error")
UniqueViolation == Response(500, "Unique constraint failed")

-----------------------------------------------------------------------------
(* startTest *)

IsPaidAlways(test) == TRUE

\* if (test.isPaid): permissions are checked for paid tests only
IsPaid(test) == test.isPaid

\* arrival up to the free-attempt check: the reads of Test and User
StartTestFetch(c, userId, testId) ==
    /\ FreeCall(c)
    /\ LET request == Arrived("startTest", userId, testId)
       IN  IF testId \notin DOMAIN Tests
           THEN ReplyCall(c, request, Response(404, "Test not found"), 0)
           ELSE IF ~Tests[testId].isActive
           THEN ReplyCall(c, request,
                    Response(400, "This test is currently inactive"), 0)
           ELSE IF ~IsPaid(Tests[testId])
           THEN AwaitCall(c, [request EXCEPT !.pc = "create"])
           ELSE IF users[userId].freeTestsUsed < FREE_LIMIT
           THEN AwaitCall(c, [request EXCEPT !.pc = "create",
                                             !.consumeFreeAttempt = TRUE])
           ELSE AwaitCall(c, [request EXCEPT !.pc = "checkSubscription"])
    /\ UNCHANGED <<now, controller, payVars, userSubscriptions, users,
                   testAttempts, answers>>

\* check B: userSubscription.findFirst
StartTestCheckSubscription(c) ==
    /\ call[c].kind = "startTest"
    /\ call[c].pc = "checkSubscription"
    /\ IF HasActiveSubscription(call[c].userId,
                                Tests[call[c].testId].categoryId, now)
       THEN AwaitCall(c, [call[c] EXCEPT !.pc = "create"])
       ELSE ReplyCall(c, call[c], Response(403,
                "You have used your free attempts. Please purchase a subscription to access this test."),
                0)
    /\ UNCHANGED <<now, controller, payVars, userSubscriptions, users,
                   testAttempts, answers>>

\* the transaction: testAttempt.create with attemptNumber 1 and, for a free
\* attempt, the increment of the user's counter; an error of either
\* statement rolls both back
StartTestCreate(c, selectedQuestions, dbOk) ==
    /\ call[c].kind = "startTest"
    /\ call[c].pc = "create"
    /\ Len(testAttempts) < MaxAttempts
    /\ selectedQuestions \in StartTestSelections[call[c].testId]
    /\ LET userId == call[c].userId
           attempt == NewAttempt(userId, call[c].testId, 1,
                                 Len(selectedQuestions), selectedQuestions)
       IN  IF ~dbOk
           THEN /\ ReplyCall(c, call[c], DatabaseError, 0)
                /\ UNCHANGED <<testAttempts, users>>
           ELSE IF AttemptNumberTaken(userId, call[c].testId, 1)
           THEN /\ ReplyCall(c, call[c], UniqueViolation, 0)
                /\ UNCHANGED <<testAttempts, users>>
           ELSE /\ testAttempts' = Append(testAttempts, attempt)
                /\ users' = IF call[c].consumeFreeAttempt
                            THEN [users EXCEPT ![userId].freeTestsUsed =
                                     Increment(users[userId].freeTestsUsed)]
                            ELSE users
                /\ ReplyCall(c, call[c],
                      Response(201, "Test started successfully"), attempt.id)
    /\ UNCHANGED <<now, controller, payVars, userSubscriptions, answers>>

-----------------------------------------------------------------------------
(* startTestAttempt *)

\* 1. resume an IN_PROGRESS attempt; 2. fetch the test
StartTestAttemptFindExisting(c, userId, testId) ==
    /\ controller = "revision"
    /\ FreeCall(c)
    /\ LET request == Arrived("startTestAttempt", userId, testId)
           existing == InProgressOf(userId, testId)
       IN  IF existing # {}
           THEN \E existingAttempt \in existing :
                   ReplyCall(c, request, Response(200, "Resuming test"),
                             existingAttempt)
           ELSE IF testId \notin DOMAIN Tests
           THEN ReplyCall(c, request, Response(404, "Test not found"), 0)
           ELSE AwaitCall(c, [request EXCEPT !.pc = "findLast"])
    /\ UNCHANGED <<now, controller, payVars, userSubscriptions, users,
                   testAttempts, answers>>

\* 3. the next attemptNumber; 4. the questions
StartTestAttemptFindLast(c) ==
    /\ call[c].kind = "startTestAttempt"
    /\ call[c].pc = "findLast"
    /\ IF CategoryQuestions(Tests[call[c].testId]) = <<>>
       THEN ReplyCall(c, call[c],
                Response(400, "No questions available for this test"), 0)
       ELSE AwaitCall(c, [call[c] EXCEPT
                !.pc = "create",
                !.nextAttemptNumber =
                    LastAttemptNumber(call[c].userId, call[c].testId) + 1])
    /\ UNCHANGED <<now, controller, payVars, userSubscriptions, users,
                   testAttempts, answers>>

\* 5. testAttempt.create
StartTestAttemptCreate(c, dbOk) ==
    /\ call[c].kind = "startTestAttempt"
    /\ call[c].pc = "create"
    /\ Len(testAttempts) < MaxAttempts
    /\ LET test == Tests[call[c].testId]
           attempt == NewAttempt(call[c].userId, call[c].testId,
                                 call[c].nextAttemptNumber,
                                 test.totalQuestions, CategoryQuestions(test))
       IN  IF ~dbOk
           THEN /\ ReplyCall(c, call[c], DatabaseError, 0)
                /\ UNCHANGED testAttempts
           ELSE IF AttemptNumberTaken(call[c].userId, call[c].testId,
                                      call[c].nextAttemptNumber)
           THEN /\ ReplyCall(c, call[c], UniqueViolation, 0)
                /\ UNCHANGED testAttempts
           ELSE /\ testAttempts' = Append(testAttempts, attempt)
                /\ ReplyCall(c, call[c], Response(201, "Test started"),
                             attempt.id)
    /\ UNCHANGED <<now, controller, payVars, userSubscriptions, users,
                   answers>>

-----------------------------------------------------------------------------
(* saveAnswer *)

\* selectedOption ? Number(selectedOption) : null, with 0 for null
NoOption == 0
Options == 0..4

NotSubmitted(attempt) == attempt.status # "SUBMITTED"

\* attempt.status !== "IN_PROGRESS" is an error
InProgress(attempt) == attempt.status = "IN_PROGRESS"

\* the security check: the attempt must be IN_PROGRESS; userId is the user
\* verifyToken let in, whom the handler never reads
SaveAnswerFind(c, userId, attemptId, questionId, selectedOption) ==
    /\ controller = "revision"
    /\ FreeCall(c)
    /\ LET request == [IdleCall EXCEPT !.kind = "saveAnswer",
                           !.userId = userId, !.attemptId = attemptId,
                           !.questionId = questionId,
                           !.selectedOption = selectedOption]
       IN  IF \/ attemptId \notin DOMAIN testAttempts
              \/ ~InProgress(testAttempts[attemptId])
           THEN ReplyCall(c, request, Response(400,
                    "Cannot save answer. Test is not in progress."), 0)
           ELSE AwaitCall(c, [request EXCEPT !.pc = "findAnswer"])
    /\ UNCHANGED <<now, controller, payVars, userSubscriptions, users,
                   testAttempts, answers>>

\* testAttemptAnswer.findFirst
SaveAnswerFindExisting(c) ==
    /\ call[c].kind = "saveAnswer"
    /\ call[c].pc = "findAnswer"
    /\ LET existing == {i \in DOMAIN answers :
                          /\ answers[i].attemptId = call[c].attemptId
                          /\ answers[i].questionId = call[c].questionId}
       IN  IF existing = {}
           THEN AwaitCall(c, [call[c] EXCEPT !.pc = "write"])
           ELSE \E existingAnswer \in existing :
                   AwaitCall(c, [call[c] EXCEPT !.pc = "write",
                                     !.existingAnswer = existingAnswer])
    /\ UNCHANGED <<now, controller, payVars, userSubscriptions, users,
                   testAttempts, answers>>

\* testAttemptAnswer.update of the row found, or testAttemptAnswer.create
SaveAnswerWrite(c) ==
    /\ call[c].kind = "saveAnswer"
    /\ call[c].pc = "write"
    /\ IF call[c].existingAnswer # 0
       THEN answers' = [answers EXCEPT ![call[c].existingAnswer].selectedOption
                                           = call[c].selectedOption]
       ELSE /\ Len(answers) < MaxAnswers
            /\ answers' = Append(answers,
                  [id |-> Len(answers) + 1, attemptId |-> call[c].attemptId,
                   questionId |-> call[c].questionId,
                   selectedOption |-> call[c].selectedOption,
                   isCorrect |-> NULL, marksObtained |-> 0])
    /\ ReplyCall(c, call[c], Response(200, "Saved"), 0)
    /\ UNCHANGED <<now, controller, payVars, userSubscriptions, users,
                   testAttempts>>

-----------------------------------------------------------------------------
(* submitTest *)

\* percentage, in hundredths of a percent
Percentage(totalMarks, maxMarks) == (totalMarks * 10000) \div maxMarks

TotalMarksNoPenalty(correct, incorrect, test) == correct * test.positiveMarks

\* +positiveMarks for each correct answer, -negativeMarks for each
\* incorrect one
TotalMarks(correct, incorrect, test) ==
    correct * test.positiveMarks - incorrect * test.negativeMarks

AlreadySubmittedNever(attempt) == FALSE

\* attempt.status === "SUBMITTED"
AlreadySubmitted(attempt) == attempt.status = "SUBMITTED"

\* testAttempt.findUnique with its test; userId is the user verifyToken let
\* in, whom the handler never reads
SubmitTestFind(c, userId, attemptId) ==
    /\ controller = "revision"
    /\ FreeCall(c)
    /\ LET request == [IdleCall EXCEPT !.kind = "submitTest",
                           !.userId = userId, !.attemptId = attemptId]
       IN  IF \/ attemptId \notin DOMAIN testAttempts
              \/ AlreadySubmitted(testAttempts[attemptId])
           THEN ReplyCall(c, request, Response(400,
                    "Invalid attempt or already submitted"), 0)
           ELSE AwaitCall(c, [request EXCEPT
                    !.pc = "fetchAnswers",
                    !.testId = testAttempts[attemptId].testId,
                    !.totalQuestions = testAttempts[attemptId].totalQuestions])
    /\ UNCHANGED <<now, controller, payVars, userSubscriptions, users,
                   testAttempts, answers>>

\* testAttemptAnswer.findMany with each answer's question
SubmitTestFetchAnswers(c) ==
    /\ call[c].kind = "submitTest"
    /\ call[c].pc = "fetchAnswers"
    /\ LET OfAttempt(ans) == ans.attemptId = call[c].attemptId
           rows == SelectSeq(answers, OfAttempt)
           userAnswers == [i \in 1..Len(rows) |->
                             [id |-> rows[i].id,
                              selectedOption |-> rows[i].selectedOption,
                              correctOption |->
                                 Questions[rows[i].questionId].correctOption]]
       IN  AwaitCall(c, [call[c] EXCEPT
                !.pc = "score",
                !.userAnswers = userAnswers,
                !.unattempted = call[c].totalQuestions - Len(userAnswers)])
    /\ UNCHANGED <<now, controller, payVars, userSubscriptions, users,
                   testAttempts, answers>>

\* the answers the loop has not reached that have an option selected
Selected(userAnswers) ==
    {i \in DOMAIN userAnswers : userAnswers[i].selectedOption # NoOption}

\* the loop up to and including its next testAttemptAnswer.update: the
\* answers without a selected option before it count as unattempted
SubmitTestScoreAnswer(c) ==
    /\ call[c].kind = "submitTest"
    /\ call[c].pc = "score"
    /\ Selected(call[c].userAnswers) # {}
    /\ LET userAnswers == call[c].userAnswers
           k == CHOOSE i \in Selected(userAnswers) :
                    \A j \in Selected(userAnswers) : i <= j
           ans == userAnswers[k]
           isCorrect == ans.selectedOption = ans.correctOption
           test == Tests[call[c].testId]
       IN  /\ answers' = [answers EXCEPT
                 ![ans.id].isCorrect = IF isCorrect THEN "true" ELSE "false",
                 ![ans.id].marksObtained = IF isCorrect THEN test.positiveMarks
                                           ELSE 0 - test.negativeMarks]
           /\ AwaitCall(c, [call[c] EXCEPT
                 !.userAnswers = SubSeq(userAnswers, k + 1, Len(userAnswers)),
                 !.unattempted = call[c].unattempted + (k - 1),
                 !.correct = call[c].correct + (IF isCorrect THEN 1 ELSE 0),
                 !.incorrect = call[c].incorrect + (IF isCorrect THEN 0 ELSE 1)])
    /\ UNCHANGED <<now, controller, payVars, userSubscriptions, users,
                   testAttempts>>

\* the percentage when attempt.totalQuestions * posMarks is 0: NaN for 0 / 0,
\* -Infinity for a negative totalMarks
NotANumber == 0 - 1000000

SubmitDataAndQuestions(attempt, submittedAt, correct, incorrect, marks, pct) ==
    [attempt EXCEPT !.status = "SUBMITTED", !.submittedAt = submittedAt,
                    !.questionIds = <<>>]

\* the data of testAttempt.update: the columns it names, the others stay
SubmitData(attempt, submittedAt, correct, incorrect, marks, pct) ==
    [attempt EXCEPT !.status = "SUBMITTED",
                    !.submittedAt = submittedAt,
                    !.correctCount = correct,
                    !.incorrectCount = incorrect,
                    !.attemptedCount = correct + incorrect,
                    !.totalMarks = marks,
                    !.percentage = pct]

\* the rest of the loop, the totals and testAttempt.update; a percentage
\* that is not a number (no marks to win) is rejected by the update or
\* stored as it is
SubmitTestUpdateAttempt(c) ==
    /\ call[c].kind = "submitTest"
    /\ call[c].pc = "score"
    /\ Selected(call[c].userAnswers) = {}
    /\ LET test == Tests[call[c].testId]
           correct == call[c].correct
           incorrect == call[c].incorrect
           totalMarks == TotalMarks(correct, incorrect, test)
           maxMarks == call[c].totalQuestions * test.positiveMarks
           percentage == IF maxMarks = 0 THEN NotANumber
                         ELSE Percentage(totalMarks, maxMarks)
       IN  \E rejected \in IF maxMarks = 0 THEN BOOLEAN ELSE {FALSE} :
           IF rejected
           THEN /\ ReplyCall(c, call[c], DatabaseError, 0)
                /\ UNCHANGED testAttempts
           ELSE /\ testAttempts' = [testAttempts EXCEPT
                      ![call[c].attemptId] =
                          SubmitData(@, now, correct, incorrect, totalMarks,
                                     percentage)]
                /\ ReplyCall(c, call[c],
                      Response(200, "Test submitted successfully"),
                      call[c].attemptId)
    /\ UNCHANGED <<now, controller, payVars, userSubscriptions, users,
                   answers>>

-----------------------------------------------------------------------------
(* submitTest of test.controller.ts: the answers come in the request body *)

Range(seq) == {seq[i] : i \in DOMAIN seq}

\* the body's answers whose question is in questionMap: the questions of the
\* attempt's questionIds
Kept(attempt, body) ==
    LET InQuestionMap(ans) ==
            ans.questionId \in Range(attempt.questionIds) \cap DOMAIN Questions
    IN  SelectSeq(body, InQuestionMap)

\* processedAnswers: one row per kept answer, in the body's order
ProcessedAnswers(attempt, body) ==
    LET kept == Kept(attempt, body)
        test == Tests[attempt.testId]
        Row(ans) ==
            LET isCorrect ==
                    ans.selectedOption = Questions[ans.questionId].correctOption
            IN  [attemptId |-> attempt.id, questionId |-> ans.questionId,
                 selectedOption |-> ans.selectedOption,
                 isCorrect |-> IF ans.selectedOption = NoOption THEN NULL
                               ELSE IF isCorrect THEN "true" ELSE "false",
                 marksObtained |-> IF ans.selectedOption = NoOption THEN 0
                                   ELSE IF isCorrect THEN test.positiveMarks
                                   ELSE 0 - test.negativeMarks]
    IN  [i \in 1..Len(kept) |-> Row(kept[i])]

CountOf(rows, isCorrect) ==
    Cardinality({i \in DOMAIN rows : rows[i].isCorrect = isCorrect})

IsOwnerAnyone(attempt, userId) == TRUE

\* attempt.userId !== userId is an error
IsOwner(attempt, userId) == attempt.userId = userId

\* the attempt must exist, be the requester's and not be SUBMITTED
SubmitTestBodyFind(c, userId, attemptId, body) ==
    /\ controller = "test.controller.ts"
    /\ FreeCall(c)
    /\ LET request == [IdleCall EXCEPT !.kind = "submitTestBody",
                           !.userId = userId, !.attemptId = attemptId,
                           !.body = body]
       IN  IF attemptId \notin DOMAIN testAttempts
           THEN ReplyCall(c, request,
                    Response(404, "Test attempt not found"), 0)
           ELSE IF ~IsOwner(testAttempts[attemptId], userId)
           THEN ReplyCall(c, request, Response(403, "Unauthorized"), 0)
           ELSE IF AlreadySubmitted(testAttempts[attemptId])
           THEN ReplyCall(c, request,
                    Response(400, "Test already submitted"), 0)
           ELSE AwaitCall(c, [request EXCEPT
                    !.pc = "transaction",
                    !.testId = testAttempts[attemptId].testId,
                    !.totalQuestions = testAttempts[attemptId].totalQuestions])
    /\ UNCHANGED <<now, controller, payVars, userSubscriptions, users,
                   testAttempts, answers>>

\* the scores of the body and the transaction: testAttempt.update, then
\* testAttemptAnswer.createMany
SubmitTestBodyTransaction(c, dbOk) ==
    /\ call[c].kind = "submitTestBody"
    /\ call[c].pc = "transaction"
    /\ LET attempt == testAttempts[call[c].attemptId]
           test == Tests[call[c].testId]
           processedAnswers == ProcessedAnswers(attempt, call[c].body)
           correctCount == CountOf(processedAnswers, "true")
           incorrectCount == CountOf(processedAnswers, "false")
           totalScore == TotalMarks(correctCount, incorrectCount, test)
           maxMarks == call[c].totalQuestions * test.positiveMarks
           percentage == IF maxMarks > 0 THEN Percentage(totalScore, maxMarks)
                         ELSE 0
       IN  IF ~dbOk
           THEN /\ ReplyCall(c, call[c], DatabaseError, 0)
                /\ UNCHANGED <<testAttempts, answers>>
           ELSE /\ Len(answers) + Len(processedAnswers) <= MaxAnswers
                /\ testAttempts' = [testAttempts EXCEPT
                      ![call[c].attemptId].status = "SUBMITTED",
                      ![call[c].attemptId].submittedAt = now,
                      ![call[c].attemptId].attemptedCount =
                          correctCount + incorrectCount,
                      ![call[c].attemptId].correctCount = correctCount,
                      ![call[c].attemptId].incorrectCount = incorrectCount,
                      ![call[c].attemptId].totalMarks = totalScore,
                      ![call[c].attemptId].percentage = percentage]
                /\ answers' = answers \o
                      [i \in 1..Len(processedAnswers) |->
                          [id |-> Len(answers) + i] @@ processedAnswers[i]]
                /\ ReplyCall(c, call[c],
                      Response(200, "Test submitted successfully"),
                      call[c].attemptId)
    /\ UNCHANGED <<now, controller, payVars, userSubscriptions, users>>

-----------------------------------------------------------------------------
(* getTestResult and viewTestSolution *)

\* the report of a SUBMITTED attempt; nobody's ownership is checked
GetTestResult(c, userId, attemptId) ==
    /\ controller = "revision"
    /\ FreeCall(c)
    /\ LET request == [IdleCall EXCEPT !.kind = "getTestResult",
                           !.userId = userId, !.attemptId = attemptId]
       IN  IF \/ attemptId \notin DOMAIN testAttempts
              \/ testAttempts[attemptId].status # "SUBMITTED"
           THEN ReplyCall(c, request, Response(400, "Result not available"), 0)
           ELSE ReplyCall(c, request, Response(200, "Result fetched"),
                          attemptId)
    /\ UNCHANGED <<now, controller, payVars, userSubscriptions, users,
                   testAttempts, answers>>

\* the validations of both versions of viewTestSolution, which differ in
\* the wording of the errors only
SolutionView(c, userId, attemptId, kind, forbidden, early, fetched) ==
    /\ controller = (IF kind = "viewTestSolution" THEN "revision"
                     ELSE "test.controller.ts")
    /\ FreeCall(c)
    /\ LET request == [IdleCall EXCEPT !.kind = kind,
                           !.userId = userId, !.attemptId = attemptId]
       IN  IF attemptId \notin DOMAIN testAttempts
           THEN ReplyCall(c, request,
                    Response(404, "Test attempt not found"), 0)
           ELSE IF ~IsOwner(testAttempts[attemptId], userId)
           THEN ReplyCall(c, request, Response(403, forbidden), 0)
           ELSE IF testAttempts[attemptId].status # "SUBMITTED"
           THEN ReplyCall(c, request, Response(400, early), 0)
           ELSE ReplyCall(c, request,
                    Response(200, fetched), attemptId)
    /\ UNCHANGED <<now, controller, payVars, userSubscriptions, users,
                   testAttempts, answers>>

ViewTestSolution(c, userId, attemptId) ==
    SolutionView(c, userId, attemptId, "viewTestSolution",
        "You do not have permission to view this solution",
        "Test is still in progress. Submit it to view solutions.",
        "Solutions fetched successfully")

\* viewTestSolution of test.controller.ts
ViewTestSolutionController(c, userId, attemptId) ==
    SolutionView(c, userId, attemptId, "viewTestSolutionController",
        "You are not authorized to view this solution",
        "Test is not yet submitted", "Solutions fetched successfully")

-----------------------------------------------------------------------------
(* The payment specification *)

AttemptIdle ==
    /\ users = [u \in Users |-> [freeTestsUsed |-> 0]]
    /\ testAttempts = <<>>
    /\ answers = <<>>
    /\ call = [c \in Calls |-> IdleCall]
    /\ reply = NoAnswer
    /\ controller = "revision"

Init ==
    /\ now = 0
    /\ payments = <<>>
    /\ userSubscriptions = <<>>
    /\ createdFrom = <<>>
    /\ req = [r \in Requests |-> IdleRequest]
    /\ sent = NothingSent
    /\ AttemptIdle

Next ==
    \/ \E u \in Buyers, p \in PlanIds : CreatePaymentOrder(u, p)
    \/ \E r \in Requests, u \in Users, o \in RequestOrderIds,
          p \in GatewayPaymentIds, dbOk \in BOOLEAN :
          \E s \in ClientSignatures(o, p) : VerifyFind(r, u, o, p, s, dbOk)
    \/ \E r \in Requests, dbOk \in BOOLEAN : VerifyMarkFailed(r, dbOk)
    \/ \E r \in Requests, dbOk \in BOOLEAN : VerifyActivate(r, dbOk)
    \/ \E r \in Requests, e \in WebhookEvents, o \in RequestOrderIds,
          p \in GatewayPaymentIds, dbOk \in BOOLEAN :
          \E h \in WebhookHeaders(WebhookBody(e, o, p)) :
             WebhookReceive(r, e, o, p, h, dbOk)
    \/ \E r \in Requests, dbOk \in BOOLEAN : WebhookActivate(r, dbOk)
    \/ \E r \in Requests, o \in RequestOrderIds, p \in GatewayPaymentIds,
          dbOk \in BOOLEAN :
          \E h \in WebhookHeaders(WebhookBody("payment.failed", o, p)) :
             WebhookPaymentFailed(r, o, p, h, dbOk)

Spec == Init /\ [][Next]_vars

-----------------------------------------------------------------------------
(* The attempt specification *)

PaymentIdle ==
    /\ payments = <<>>
    /\ createdFrom = <<>>
    /\ req = [r \in Requests |-> IdleRequest]
    /\ sent = NothingSent

\* user u1 has used any number of free attempts up to the limit (on tests
\* outside this catalog) and may hold a subscription
AttemptInit ==
    /\ now = 0
    /\ PaymentIdle
    /\ \E used \in 0..FREE_LIMIT :
          /\ users = [u \in Users |-> [freeTestsUsed |->
                                          IF u \in Candidates THEN used ELSE 0]]
          /\ \/ userSubscriptions = <<>>
             \/ /\ used = FREE_LIMIT
                /\ \E sub \in GrantedSubscriptions : userSubscriptions = <<sub>>
    /\ testAttempts = <<>>
    /\ answers = <<>>
    /\ call = [c \in Calls |-> IdleCall]
    /\ reply = NoAnswer
    /\ controller = "revision"

AttemptNext ==
    \/ \E c \in Calls, u \in Candidates, t \in RequestTestIds :
          StartTestFetch(c, u, t)
    \/ \E c \in Calls : StartTestCheckSubscription(c)
    \/ \E c \in Calls, dbOk \in BOOLEAN :
          \E q \in UNION {StartTestSelections[t] : t \in DOMAIN Tests} :
             StartTestCreate(c, q, dbOk)
    \/ \E c \in Calls, u \in Candidates, t \in RequestTestIds :
          StartTestAttemptFindExisting(c, u, t)
    \/ \E c \in Calls : StartTestAttemptFindLast(c)
    \/ \E c \in Calls, dbOk \in BOOLEAN : StartTestAttemptCreate(c, dbOk)
    \/ \E c \in Calls, u \in Candidates, a \in 1..MaxAttempts :
          SubmitTestFind(c, u, a)
    \/ \E c \in Calls : SubmitTestFetchAnswers(c)
    \/ \E c \in Calls : SubmitTestUpdateAttempt(c)

AttemptSpec == AttemptInit /\ [][AttemptNext]_vars

-----------------------------------------------------------------------------
(* The entitlement specification: startTest alone, over every kind of
   subscription row, while the clock advances                             *)

\* new Date() moves on
Tick ==
    /\ now < MaxTime
    /\ now' = now + 1
    /\ UNCHANGED <<payVars, userSubscriptions, attemptVars>>

EntitlementInit ==
    /\ now = 0
    /\ PaymentIdle
    /\ \E used \in 0..FREE_LIMIT :
          users = [u \in Users |-> [freeTestsUsed |->
                                      IF u \in Candidates THEN used ELSE 0]]
    /\ \/ userSubscriptions = <<>>
       \/ \E sub \in GrantedSubscriptions \cup OtherSubscriptions :
             userSubscriptions = <<sub>>
    /\ testAttempts = <<>>
    /\ answers = <<>>
    /\ call = [c \in Calls |-> IdleCall]
    /\ reply = NoAnswer
    /\ controller = "revision"

EntitlementNext ==
    \/ \E c \in Calls, u \in Candidates, t \in RequestTestIds :
          StartTestFetch(c, u, t)
    \/ \E c \in Calls : StartTestCheckSubscription(c)
    \/ \E c \in Calls, dbOk \in BOOLEAN :
          \E q \in UNION {StartTestSelections[t] : t \in DOMAIN Tests} :
             StartTestCreate(c, q, dbOk)
    \/ Tick

EntitlementSpec == EntitlementInit /\ [][EntitlementNext]_vars

-----------------------------------------------------------------------------
(* The answer specification: one attempt of the mock test, its answers, its
   submission and the views of its result                                  *)

\* an attempt of user u1 on the mock test, as the start handlers create it
OpenAttempt(questionIds) ==
    [id |-> 1, userId |-> "u1", testId |-> "tMock", attemptNumber |-> 1,
     status |-> "IN_PROGRESS",
     totalQuestions |-> Tests["tMock"].totalQuestions,
     questionIds |-> questionIds,
     startedAt |-> 0, submittedAt |-> NoDate,
     attemptedCount |-> 0, correctCount |-> 0, incorrectCount |-> 0,
     totalMarks |-> 0, percentage |-> 0]

\* the attempt ids, question ids and options the clients send: attempt 2
\* does not exist; the options are no option and option 1, the correct one
\* of q1 and a wrong one of q2 and q3
RequestAttemptIds == {1, 2}
RequestQuestionIds == {"q1", "q2"}
RequestOptions == {NoOption, 1}

\* the bodies of submitTest: an answer to each of up to as many questions
\* as the test has, in the order of the catalog
RequestAnswers ==
    [questionId : {"q1", "q2", "q3"}, selectedOption : RequestOptions]
RequestBodies ==
    {body \in UNION {[1..n -> RequestAnswers] :
                        n \in 0..Tests["tMock"].totalQuestions} :
        \A i, j \in DOMAIN body :
            i < j => \E k, l \in DOMAIN QuestionScan :
                        /\ k < l
                        /\ QuestionScan[k] = body[i].questionId
                        /\ QuestionScan[l] = body[j].questionId}

\* one attempt in progress: started by startTestAttempt under the revision,
\* by startTest under test.controller.ts
AnswerInit ==
    /\ now = 0
    /\ PaymentIdle
    /\ users = [u \in Users |-> [freeTestsUsed |-> 0]]
    /\ userSubscriptions = <<>>
    /\ controller \in Controllers
    /\ IF controller = "revision"
       THEN testAttempts = <<OpenAttempt(CategoryQuestions(Tests["tMock"]))>>
       ELSE \E questionIds \in StartTestSelections["tMock"] :
               testAttempts = <<OpenAttempt(questionIds)>>
    /\ answers = <<>>
    /\ call = [c \in Calls |-> IdleCall]
    /\ reply = NoAnswer

AnswerNext ==
    \/ \E c \in Calls, u \in Candidates, a \in RequestAttemptIds :
          \E q \in RequestQuestionIds, o \in RequestOptions :
             SaveAnswerFind(c, u, a, q, o)
    \/ \E c \in Calls : SaveAnswerFindExisting(c)
    \/ \E c \in Calls : SaveAnswerWrite(c)
    \/ \E c \in Calls, u \in Candidates, a \in RequestAttemptIds :
          SubmitTestFind(c, u, a)
    \/ \E c \in Calls : SubmitTestFetchAnswers(c)
    \/ \E c \in Calls : SubmitTestScoreAnswer(c)
    \/ \E c \in Calls : SubmitTestUpdateAttempt(c)
    \/ \E c \in Calls, u \in Users, a \in RequestAttemptIds :
          \E body \in RequestBodies : SubmitTestBodyFind(c, u, a, body)
    \/ \E c \in Calls, dbOk \in BOOLEAN : SubmitTestBodyTransaction(c, dbOk)

AnswerSpec == AnswerInit /\ [][AnswerNext]_vars

-----------------------------------------------------------------------------
(* The scoring specification: the same attempt, one request at a time *)

ScoringNext ==
    \/ \E u \in Candidates, a \in RequestAttemptIds :
          \E q \in RequestQuestionIds, o \in RequestOptions :
             SaveAnswerFind("k1", u, a, q, o)
    \/ SaveAnswerFindExisting("k1")
    \/ SaveAnswerWrite("k1")
    \/ \E u \in Candidates, a \in RequestAttemptIds :
          SubmitTestFind("k1", u, a)
    \/ SubmitTestFetchAnswers("k1")
    \/ SubmitTestScoreAnswer("k1")
    \/ SubmitTestUpdateAttempt("k1")
    \/ \E u \in Users, a \in RequestAttemptIds :
          \E body \in RequestBodies : SubmitTestBodyFind("k1", u, a, body)
    \/ \E dbOk \in BOOLEAN : SubmitTestBodyTransaction("k1", dbOk)

ScoringSpec == AnswerInit /\ [][ScoringNext]_vars

-----------------------------------------------------------------------------
(* The assembly specification: both start handlers on the mock test, which
   is free, so that startTest asks for no subscription                     *)

AssemblyNext ==
    \/ \E c \in Calls, u \in Candidates : StartTestFetch(c, u, "tMock")
    \/ \E c \in Calls, dbOk \in BOOLEAN :
          \E q \in StartTestSelections["tMock"] : StartTestCreate(c, q, dbOk)
    \/ \E c \in Calls, u \in Candidates :
          StartTestAttemptFindExisting(c, u, "tMock")
    \/ \E c \in Calls : StartTestAttemptFindLast(c)
    \/ \E c \in Calls, dbOk \in BOOLEAN : StartTestAttemptCreate(c, dbOk)

AssemblySpec == AttemptInit /\ [][AssemblyNext]_vars

-----------------------------------------------------------------------------
(* The status specification: an attempt in any status, with or without an
   answer, the requests to save an answer and the views                    *)

\* enum TestStatus
TestStatus == {"IN_PROGRESS", "SUBMITTED", "EXPIRED", "ABANDONED"}

\* the attempt after submitTest when it is SUBMITTED, with its answer to q1
\* scored if there is one; EXPIRED and ABANDONED are set outside the handlers
AttemptIn(status, answered) ==
    LET attempt == [OpenAttempt(CategoryQuestions(Tests["tMock"]))
                       EXCEPT !.status = status]
        test == Tests["tMock"]
        correct == IF answered THEN 1 ELSE 0
    IN  IF status # "SUBMITTED" THEN attempt
        ELSE [attempt EXCEPT
                 !.submittedAt = 0,
                 !.attemptedCount = correct,
                 !.correctCount = correct,
                 !.totalMarks = TotalMarks(correct, 0, test),
                 !.percentage = Percentage(TotalMarks(correct, 0, test),
                                    attempt.totalQuestions * test.positiveMarks)]

\* the answer to q1, its correct option, as saveAnswer stores it and, once
\* the attempt is SUBMITTED, as submitTest marks it
AnswerIn(status) ==
    [id |-> 1, attemptId |-> 1, questionId |-> "q1",
     selectedOption |-> Questions["q1"].correctOption,
     isCorrect |-> IF status = "SUBMITTED" THEN "true" ELSE NULL,
     marksObtained |-> IF status = "SUBMITTED"
                       THEN Tests["tMock"].positiveMarks ELSE 0]

StatusInit ==
    /\ now = 0
    /\ PaymentIdle
    /\ users = [u \in Users |-> [freeTestsUsed |-> 0]]
    /\ userSubscriptions = <<>>
    /\ controller \in Controllers
    /\ \E status \in TestStatus, answered \in BOOLEAN :
          /\ testAttempts = <<AttemptIn(status, answered)>>
          /\ answers = IF answered THEN <<AnswerIn(status)>> ELSE <<>>
    /\ call = [c \in Calls |-> IdleCall]
    /\ reply = NoAnswer

StatusNext ==
    \/ \E c \in Calls, u \in Candidates, a \in RequestAttemptIds :
          \E q \in RequestQuestionIds, o \in RequestOptions :
             SaveAnswerFind(c, u, a, q, o)
    \/ \E c \in Calls : SaveAnswerFindExisting(c)
    \/ \E c \in Calls : SaveAnswerWrite(c)
    \/ \E c \in Calls, u \in Users, a \in RequestAttemptIds :
          GetTestResult(c, u, a)
    \/ \E c \in Calls, u \in Users, a \in RequestAttemptIds :
          ViewTestSolution(c, u, a)
    \/ \E c \in Calls, u \in Users, a \in RequestAttemptIds :
          ViewTestSolutionController(c, u, a)

StatusSpec == StatusInit /\ [][StatusNext]_vars

-----------------------------------------------------------------------------
(* Claims about payment reconciliation *)

Activations(orderId) == Cardinality(SubscriptionsFrom(orderId))

\* C1 -- exactly-once activation: a "payment captured" webhook never
\* commits an activation for a payment that is already SUCCESS, whichever
\* way it interleaves with another delivery of the event or with a
\* verifyPayment call, so one order never gets a second Subscription from a
\* racing delivery.
ExactlyOnceActivation ==
    [][\A o \in DOMAIN payments :
          (Activations(o)' > Activations(o) /\ sent'.kind = "webhook")
              => payments[o].status # "SUCCESS"]_vars

SignatureRejected == Response(400, "Payment signature verification failed")

SuccessIsTerminal ==
    [][\A o \in DOMAIN payments :
          payments[o].status = "SUCCESS" => payments'[o].status = "SUCCESS"]_vars

\* C5 -- every webhook delivery that carries the gateway's signature is
\* answered 200 {status: "ok"}, whatever happened while processing it.
WebhookAlwaysAcknowledged ==
    (sent.kind = "webhook" /\ sent.genuine) => sent.res = Response(200, "ok")

\* C6 -- every Subscription created by an activation belongs to the user of
\* the Payment row and carries the plan, type, category scope and duration
\* recorded on the payment when the order was created.
SubscriptionCarriesPayment ==
    \A i \in DOMAIN userSubscriptions :
        LET sub == userSubscriptions[i]
            payment == payments[createdFrom[i]]
        IN  /\ sub.userId = payment.userId
            /\ sub.planId = payment.metadata.planId
            /\ sub.type = payment.metadata.planType
            /\ sub.categoryId = payment.metadata.categoryId
            /\ sub.endDate = sub.startDate + payment.metadata.durationDays

-----------------------------------------------------------------------------
(* Claims about starting an attempt *)

StartKinds == {"startTest", "startTestAttempt"}

\* C7 -- idempotent start: a start request that arrives while the user has
\* an IN_PROGRESS attempt of the test, and is answered while that attempt is
\* still IN_PROGRESS, succeeds with the id of that attempt, creates no
\* Attempt row and leaves the free-attempt counters alone.
IdempotentStart ==
    [][(/\ reply'.kind \in StartKinds
        /\ reply'.resumes # {}
        /\ \A a \in reply'.resumes : testAttempts[a].status = "IN_PROGRESS"
        /\ reply'.res # DatabaseError)
          => /\ reply'.res.code \in {200, 201}
             /\ reply'.attemptId \in reply'.resumes
             /\ testAttempts' = testAttempts
             /\ users' = users]_vars

\* C8 -- at most one attempt of a (user, test) pair is IN_PROGRESS.
AtMostOneInProgress ==
    \A u \in Users, t \in DOMAIN Tests : Cardinality(InProgressOf(u, t)) <= 1

DeniedWithoutEntitlement ==
    [][(/\ reply'.kind \in StartKinds
        /\ reply'.denied
        /\ reply'.resumes = {}
        /\ reply'.res # DatabaseError)
          => /\ reply'.res.code = 403
             /\ testAttempts' = testAttempts
             /\ users' = users]_vars

-----------------------------------------------------------------------------
(* Claims about entitlement *)

\* C11 -- a start request for a test that is not paid is never denied and
\* never changes a free-attempt counter: startTest goes on to create the
\* attempt without marking it a free attempt, whatever the user's counter
\* and subscriptions are, and no step of a start request for such a test
\* answers 403 or writes to table User.
FreeTestAlwaysGranted ==
    [][\A c \in Calls :
          /\ (/\ call[c].kind = "idle" /\ call'[c].kind = "startTest"
               /\ ~Tests[call'[c].testId].isPaid)
                => /\ call'[c].pc = "create"
                   /\ ~call'[c].consumeFreeAttempt
                   /\ users' = users
          /\ (/\ call[c].kind \in StartKinds /\ call'[c] # call[c]
               /\ ~Tests[call[c].testId].isPaid)
                => /\ users' = users
                   /\ call'[c].kind = "idle"
                        => /\ reply'.res.code # 403
                           /\ ~reply'.isFreeAttempt]_vars

FreeTestStartedAtLimit ==
    /\ reply.kind = "startTest"
    /\ reply.res.code = 201
    /\ reply.attemptId \in DOMAIN testAttempts
    /\ ~Tests[testAttempts[reply.attemptId].testId].isPaid
    /\ users[testAttempts[reply.attemptId].userId].freeTestsUsed = FREE_LIMIT
    /\ userSubscriptions = <<>>

-----------------------------------------------------------------------------
(* Claims about answers, submission and the views *)

SubmitKinds == {"submitTest", "submitTestBody"}

\* a request of one of the kinds arrives for the attempt in this step: the
\* handler's first database step runs, and either awaits the next one or
\* replies at once; the requester is the owner wherever the handler looks
\* at the requester
Arrives(kinds, attemptId) ==
    \/ \E c \in Calls :
          /\ call[c].kind = "idle"
          /\ call'[c].kind \in kinds
          /\ call'[c].attemptId = attemptId
    \/ /\ call' = call
       /\ reply' # reply
       /\ reply'.kind \in kinds
       /\ reply'.requested = attemptId

\* C13: a submit arriving at an attempt that is already SUBMITTED fails
\* with the invalid-state error (400) and leaves the attempt's stored counts,
\* marks, percentage and submit timestamp and every Answer row as they were
SubmittedStaysScored ==
    [][\A a \in DOMAIN testAttempts :
          /\ testAttempts[a].status = "SUBMITTED"
          /\ Arrives(SubmitKinds, a)
          /\ reply'.requester \in {NULL, testAttempts[a].userId}
          => /\ reply'.res.code = 400
             /\ UNCHANGED <<testAttempts, answers>>]_vars

\* a submit was rejected as already submitted, on an attempt that holds
\* marks and a scored answer
ResubmitRejected ==
    /\ reply.kind \in SubmitKinds
    /\ reply.res.code = 400
    /\ reply.requested \in DOMAIN testAttempts
    /\ testAttempts[reply.requested].status = "SUBMITTED"
    /\ testAttempts[reply.requested].totalMarks # 0
    /\ \E i \in DOMAIN answers :
          /\ answers[i].attemptId = reply.requested
          /\ answers[i].isCorrect # NULL

-----------------------------------------------------------------------------
(* Claims about attempt numbers *)

\* C14: a granted start, one that reaches the creation of the attempt and
\* is not failed by the database being down, of a user whose earlier
\* attempts of the test are all SUBMITTED creates an attempt whose
\* attemptNumber is 1 + the largest attemptNumber of those attempts (1
\* without any), and no two attempts of a user and test share a number
NextAttemptNumber ==
    [][\A c \in Calls :
          /\ call[c].kind \in StartKinds
          /\ call[c].pc = "create"
          /\ call'[c].kind = "idle"
          /\ reply'.res # DatabaseError
          /\ \A i \in DOMAIN testAttempts :
                /\ testAttempts[i].userId = call[c].userId
                /\ testAttempts[i].testId = call[c].testId
                => testAttempts[i].status = "SUBMITTED"
          => /\ Len(testAttempts') = Len(testAttempts) + 1
             /\ testAttempts'[Len(testAttempts')].attemptNumber
                   = LastAttemptNumber(call[c].userId, call[c].testId) + 1
             /\ \A i, j \in DOMAIN testAttempts' :
                   /\ testAttempts'[i].userId = testAttempts'[j].userId
                   /\ testAttempts'[i].testId = testAttempts'[j].testId
                   /\ testAttempts'[i].attemptNumber
                         = testAttempts'[j].attemptNumber
                   => i = j]_vars

-----------------------------------------------------------------------------
(* Claims about scoring *)

\* the Answer rows of an attempt, those with an option selected, and those
\* whose option is the question's correct one
RowsOf(a) == {i \in DOMAIN answers : answers[i].attemptId = a}
AttemptedRows(a) == {i \in RowsOf(a) : answers[i].selectedOption # NoOption}
CorrectRows(a) ==
    {i \in AttemptedRows(a) :
        answers[i].selectedOption = Questions[answers[i].questionId].correctOption}

\* C15: on every SUBMITTED attempt the stored attemptedCount is the number
\* of answers with an option selected, correctCount the number of them whose
\* option is the correct one, incorrectCount the rest, totalMarks is
\* correct * positiveMarks - incorrect * negativeMarks and percentage is
\* totalMarks / (totalQuestions * positiveMarks) * 100, the unattempted
\* questions being the totalQuestions - attemptedCount others; with marks
\* 1 and 0.25, 10 questions, 3 correct and 2 incorrect this is 2.5 and 25.0
ScoringFormulas ==
    /\ \A a \in DOMAIN testAttempts :
          testAttempts[a].status = "SUBMITTED" =>
             LET attempt == testAttempts[a]
                 test == Tests[attempt.testId]
                 correct == Cardinality(CorrectRows(a))
                 incorrect == Cardinality(AttemptedRows(a) \ CorrectRows(a))
             IN  /\ attempt.correctCount = correct
                 /\ attempt.incorrectCount = incorrect
                 /\ attempt.attemptedCount = correct + incorrect
                 /\ attempt.totalQuestions - attempt.attemptedCount >= 0
                 /\ attempt.totalMarks = correct * test.positiveMarks
                                            - incorrect * test.negativeMarks
                 /\ attempt.percentage * attempt.totalQuestions
                                       * test.positiveMarks
                       = attempt.totalMarks * 10000
    /\ Percentage(3 * 4 - 2 * 1, 10 * 4) = 2500

\* an attempt was submitted with a correct and an incorrect answer
ScoredBothWays ==
    \E a \in DOMAIN testAttempts :
        /\ testAttempts[a].status = "SUBMITTED"
        /\ testAttempts[a].correctCount = 1
        /\ testAttempts[a].incorrectCount = 1
        /\ testAttempts[a].totalMarks = 3
        /\ testAttempts[a].percentage = 3750

-----------------------------------------------------------------------------
(* Claims about the status of an attempt *)

\* C16: a saveAnswer that arrives for an attempt that does not exist or is
\* SUBMITTED, EXPIRED or ABANDONED fails with an error, and no Answer row is
\* created or changed
SaveOnlyInProgress ==
    [][\A a \in RequestAttemptIds :
          /\ Arrives({"saveAnswer"}, a)
          /\ \/ a \notin DOMAIN testAttempts
             \/ testAttempts[a].status # "IN_PROGRESS"
          => /\ reply'.res.code >= 400
             /\ reply'.kind = "saveAnswer"
             /\ \A c \in Calls : call'[c] = call[c]
             /\ UNCHANGED answers]_vars

\* a saveAnswer was refused on an EXPIRED attempt that has an answer
SaveRefusedOnExpired ==
    /\ reply.kind = "saveAnswer"
    /\ reply.res.code = 400
    /\ reply.requested \in DOMAIN testAttempts
    /\ testAttempts[reply.requested].status = "EXPIRED"
    /\ \E i \in DOMAIN answers : answers[i].attemptId = reply.requested

ResultKinds == {"getTestResult"}
SolutionKinds == {"viewTestSolution", "viewTestSolutionController"}

-----------------------------------------------------------------------------
(* Claims about the assembly of the question list *)

SubjectOf(q) == Topics[Questions[q].topicId].subjectId

\* C18: the question list of every attempt of a blueprint (mock) test has
\* no question twice, only questions of the blueprint's subjects, and of
\* each blueprint subject exactly min(questionsPerTest, number of its active
\* questions) questions
BlueprintAssembled ==
    \A a \in DOMAIN testAttempts :
        LET attempt == testAttempts[a]
            test == Tests[attempt.testId]
            ids == attempt.questionIds
            blueprint == {item \in CategorySubjects :
                             item.categoryId = test.categoryId}
            Active(subjectId) ==
                {q \in DOMAIN Questions :
                    Questions[q].isActive /\ SubjectOf(q) = subjectId}
        IN  test.subjectId = NULL =>
               /\ \A i, j \in DOMAIN ids : ids[i] = ids[j] => i = j
               /\ \A i \in DOMAIN ids :
                     \E item \in blueprint : SubjectOf(ids[i]) = item.subjectId
               /\ \A item \in blueprint :
                     Cardinality({i \in DOMAIN ids :
                                     SubjectOf(ids[i]) = item.subjectId})
                        = Min(item.questionsPerTest,
                              Cardinality(Active(item.subjectId)))

-----------------------------------------------------------------------------
(* Claims about concurrent submission *)

\* C19: of two submit requests of one attempt whose database steps
\* interleave at most one succeeds: a submit that finishes when the attempt
\* is already SUBMITTED fails, and writes neither the attempt nor an answer
ScoredExactlyOnce ==
    [][\A c \in Calls :
          /\ call[c].kind \in SubmitKinds
          /\ call'[c].kind = "idle"
          /\ testAttempts[call[c].attemptId].status = "SUBMITTED"
          => /\ reply'.res.code >= 400
             /\ UNCHANGED <<testAttempts, answers>>]_vars

\* C20: under the controller with saveAnswer, whenever an attempt is
\* SUBMITTED, its attemptedCount is the number
\* of its Answer rows with an option selected, and each of these rows has
\* its correctness and marks set, also when saveAnswer requests interleave
\* with the submit
SubmittedSnapshotConsistent ==
    \A a \in DOMAIN testAttempts :
        controller = "revision" /\ testAttempts[a].status = "SUBMITTED" =>
           /\ testAttempts[a].attemptedCount = Cardinality(AttemptedRows(a))
           /\ \A i \in AttemptedRows(a) :
                 /\ answers[i].isCorrect =
                       (IF i \in CorrectRows(a) THEN "true" ELSE "false")
                 /\ answers[i].marksObtained =
                       (IF i \in CorrectRows(a)
                        THEN Tests[testAttempts[a].testId].positiveMarks
                        ELSE 0 - Tests[testAttempts[a].testId].negativeMarks)

-----------------------------------------------------------------------------
(* Claims about the answers of an attempt *)

\* C21: under the controller with saveAnswer, once an attempt is SUBMITTED
\* no Answer row of it is created and no
\* Answer of it changes its selectedOption, also when a saveAnswer that
\* began before the submit finishes after it
AnswersFrozenAfterSubmit ==
    [][\A a \in DOMAIN testAttempts :
          controller = "revision" /\ testAttempts[a].status = "SUBMITTED" =>
             /\ {i \in DOMAIN answers' : answers'[i].attemptId = a} = RowsOf(a)
             /\ \A i \in RowsOf(a) :
                   answers'[i].selectedOption = answers[i].selectedOption]_vars

\* C22: under the controller with saveAnswer, an attempt never holds two
\* Answer rows of the same question, also after two concurrent saves of the
\* same (attempt, question) pair
OneAnswerPerQuestion ==
    controller = "revision" =>
       \A i, j \in DOMAIN answers :
          /\ answers[i].attemptId = answers[j].attemptId
          /\ answers[i].questionId = answers[j].questionId
          => i = j

-----------------------------------------------------------------------------
(* The question list specification: one attempt of the free test of one
   question, one request at a time; q2 and q3 are answered though the
   attempt's questionIds holds q1 alone (or q2 alone)                     *)

\* an attempt of user u1 on the free test: startTestAttempt stores the
\* test's totalQuestions and the first question of the category, startTest
\* the length of its selection of the test's subject
ListAttempt(questionIds) ==
    [OpenAttempt(questionIds) EXCEPT
        !.testId = "tFree",
        !.totalQuestions = Len(questionIds)]

ListInit ==
    /\ now = 0
    /\ PaymentIdle
    /\ users = [u \in Users |-> [freeTestsUsed |-> 0]]
    /\ userSubscriptions = <<>>
    /\ controller \in Controllers
    /\ IF controller = "revision"
       THEN testAttempts = <<ListAttempt(CategoryQuestions(Tests["tFree"]))>>
       ELSE \E questionIds \in StartTestSelections["tFree"] :
               testAttempts = <<ListAttempt(questionIds)>>
    /\ answers = <<>>
    /\ call = [c \in Calls |-> IdleCall]
    /\ reply = NoAnswer

ListSpec == ListInit /\ [][ScoringNext]_vars

\* C23: in every SUBMITTED attempt correctCount + incorrectCount is at most
\* totalQuestions: an answer to a question outside the attempt's questionIds
\* counts for nothing
ScoredWithinQuestionList ==
    \A a \in DOMAIN testAttempts :
       testAttempts[a].status = "SUBMITTED" =>
          testAttempts[a].correctCount + testAttempts[a].incorrectCount
             <= testAttempts[a].totalQuestions

-----------------------------------------------------------------------------
(* The zero marks specification: one attempt of a test whose positiveMarks
   an administrator has set to 0, one request at a time                   *)

ZeroInit ==
    /\ now = 0
    /\ PaymentIdle
    /\ users = [u \in Users |-> [freeTestsUsed |-> 0]]
    /\ userSubscriptions = <<>>
    /\ controller \in Controllers
    /\ IF controller = "revision"
       THEN testAttempts =
               <<[ListAttempt(CategoryQuestions(Tests["tZero"]))
                     EXCEPT !.testId = "tZero"]>>
       ELSE \E questionIds \in StartTestSelections["tZero"] :
               testAttempts =
                  <<[ListAttempt(questionIds) EXCEPT !.testId = "tZero"]>>
    /\ answers = <<>>
    /\ call = [c \in Calls |-> IdleCall]
    /\ reply = NoAnswer

ZeroSpec == ZeroInit /\ [][ScoringNext]_vars

\* the marks to win in an attempt
MaxMarksOf(attempt) ==
    attempt.totalQuestions * Tests[attempt.testId].positiveMarks

\* C24: when there are no marks to win in an attempt, under the controller
\* with saveAnswer a submit of it that passed the checks is not answered
\* with an error, and the SUBMITTED attempt holds percentage 0
ZeroMarksGuarded ==
    controller = "revision" =>
       /\ \A a \in DOMAIN testAttempts :
             /\ testAttempts[a].status = "SUBMITTED"
             /\ MaxMarksOf(testAttempts[a]) = 0
             => testAttempts[a].percentage = 0
       /\ ~ /\ reply.kind = "submitTest"
            /\ reply.requested \in DOMAIN testAttempts
            /\ MaxMarksOf(testAttempts[reply.requested]) = 0
            /\ reply.res = DatabaseError

-----------------------------------------------------------------------------
(* getAttemptQuestions *)

\* the attempt must be the requester's and IN_PROGRESS; the questions of
\* its questionIds are read from the catalog, nothing is written
GetAttemptQuestions(c, userId, attemptId) ==
    /\ controller = "revision"
    /\ FreeCall(c)
    /\ LET request == [IdleCall EXCEPT !.kind = "getAttemptQuestions",
                           !.userId = userId, !.attemptId = attemptId]
       IN  IF \/ attemptId \notin DOMAIN testAttempts
              \/ testAttempts[attemptId].userId # userId
              \/ ~InProgress(testAttempts[attemptId])
           THEN ReplyCall(c, request, Response(400,
                    "Invalid attempt or test already submitted"), 0)
           ELSE ReplyCall(c, request, Response(200, "Questions fetched"),
                          attemptId)
    /\ UNCHANGED <<now, controller, payVars, userSubscriptions, users,
                   testAttempts, answers>>

-----------------------------------------------------------------------------
(* The lifecycle specification: one attempt of the mock test from its
   creation on: resumed, read, answered, submitted, viewed, and started
   again once it is submitted; one request at a time                      *)

LifecycleNext ==
    \/ ScoringNext
    \/ \E u \in Candidates : StartTestAttemptFindExisting("k1", u, "tMock")
    \/ StartTestAttemptFindLast("k1")
    \/ \E dbOk \in BOOLEAN : StartTestAttemptCreate("k1", dbOk)
    \/ \E u \in Users, a \in RequestAttemptIds : GetAttemptQuestions("k1", u, a)
    \/ \E u \in Users, a \in RequestAttemptIds : GetTestResult("k1", u, a)
    \/ \E u \in Users, a \in RequestAttemptIds : ViewTestSolution("k1", u, a)
    \/ \E u \in Users, a \in RequestAttemptIds :
          ViewTestSolutionController("k1", u, a)

LifecycleSpec == AnswerInit /\ [][LifecycleNext]_vars

\* C25: the questionIds of an attempt never change after its creation
QuestionIdsImmutable ==
    [][\A a \in DOMAIN testAttempts :
          /\ a \in DOMAIN testAttempts'
          /\ testAttempts'[a].questionIds = testAttempts[a].questionIds]_vars

\* an attempt was resumed, its questions read, an answer saved, and it is
\* submitted with the questionIds it was created with
SubmittedWithItsQuestions ==
    /\ controller = "revision"
    /\ testAttempts[1].status = "SUBMITTED"
    /\ testAttempts[1].questionIds = CategoryQuestions(Tests["tMock"])
    /\ RowsOf(1) # {}
    /\ reply.kind = "viewTestSolution"
    /\ reply.res.code = 200

-----------------------------------------------------------------------------
(* Claims about the status of a payment *)

\* C26: a FAILED payment stays FAILED and gets no Subscription: neither a
\* later captured webhook nor a later verifyPayment moves it to SUCCESS
FailedStaysFailed ==
    [][\A o \in DOMAIN payments :
          payments[o].status = "FAILED" =>
             /\ payments'[o].status = "FAILED"
             /\ Activations(o)' = Activations(o)]_vars

-----------------------------------------------------------------------------
(* The credit specification: startTest of one user on two paid tests *)

PaidTestIds == {"tPaid", "tPaid2"}

CreditNext ==
    \/ \E c \in Calls, u \in Candidates, t \in PaidTestIds :
          StartTestFetch(c, u, t)
    \/ \E c \in Calls : StartTestCheckSubscription(c)
    \/ \E c \in Calls, dbOk \in BOOLEAN :
          \E q \in UNION {StartTestSelections[t] : t \in PaidTestIds} :
             StartTestCreate(c, q, dbOk)

CreditSpec == AttemptInit /\ [][CreditNext]_vars

\* C27: the free-attempt counter of a user never exceeds the free limit,
\* also when start requests of the user for different paid tests read the
\* counter before any of them commits its increment
FreeCreditsBounded ==
    \A u \in Users : users[u].freeTestsUsed <= FREE_LIMIT

\* C28: a payment is SUCCESS exactly when a Subscription was created from it
SuccessIffSubscription ==
    \A o \in DOMAIN payments :
       payments[o].status = "SUCCESS" <=> Activations(o) >= 1

-----------------------------------------------------------------------------
(* The owner specification: one attempt of user u1, the requests of any
   user on it, one request at a time                                       *)

OwnerNext ==
    \/ \E u \in Users, a \in RequestAttemptIds :
          \E q \in RequestQuestionIds, o \in RequestOptions :
             SaveAnswerFind("k1", u, a, q, o)
    \/ SaveAnswerFindExisting("k1")
    \/ SaveAnswerWrite("k1")
    \/ \E u \in Users, a \in RequestAttemptIds : SubmitTestFind("k1", u, a)
    \/ SubmitTestFetchAnswers("k1")
    \/ SubmitTestScoreAnswer("k1")
    \/ SubmitTestUpdateAttempt("k1")
    \/ \E u \in Users, a \in RequestAttemptIds :
          \E body \in RequestBodies : SubmitTestBodyFind("k1", u, a, body)
    \/ \E dbOk \in BOOLEAN : SubmitTestBodyTransaction("k1", dbOk)
    \/ \E u \in Users, a \in RequestAttemptIds : GetAttemptQuestions("k1", u, a)

OwnerSpec == AnswerInit /\ [][OwnerNext]_vars

OwnerKinds == {"saveAnswer", "submitTest", "submitTestBody",
               "getAttemptQuestions"}

\* a request on an attempt that exists and is another user's
Stranger(userId, attemptId) ==
    /\ attemptId \in DOMAIN testAttempts
    /\ testAttempts[attemptId].userId # userId

\* C29: a request to save an answer of, to submit or to read the questions
\* of an attempt of another user writes nothing and is answered with an error
OnlyOwnerActs ==
    [][/\ \A c \in Calls :
             /\ call[c].kind \in OwnerKinds
             /\ call'[c] # call[c]
             /\ Stranger(call[c].userId, call[c].attemptId)
             => testAttempts' = testAttempts /\ answers' = answers
       /\ /\ reply' # reply
          /\ reply'.kind \in OwnerKinds
          /\ Stranger(reply'.requester, reply'.requested)
          => reply'.res.code >= 400]_vars

-----------------------------------------------------------------------------
(* The shortfall specification: both start handlers on a mock test that is
   configured with more questions than the catalog has active              *)

ShortfallNext ==
    \/ \E c \in Calls, u \in Candidates : StartTestFetch(c, u, "tBig")
    \/ \E c \in Calls, dbOk \in BOOLEAN :
          \E q \in StartTestSelections["tBig"] : StartTestCreate(c, q, dbOk)
    \/ \E c \in Calls, u \in Candidates :
          StartTestAttemptFindExisting(c, u, "tBig")
    \/ \E c \in Calls : StartTestAttemptFindLast(c)
    \/ \E c \in Calls, dbOk \in BOOLEAN : StartTestAttemptCreate(c, dbOk)

ShortfallSpec == AttemptInit /\ [][ShortfallNext]_vars

\* C30: the totalQuestions of every attempt is the number of entries of its
\* questionIds
TotalQuestionsIsListLength ==
    \A a \in DOMAIN testAttempts :
       testAttempts[a].totalQuestions = Len(testAttempts[a].questionIds)

=============================================================================
